---- MODULE Spec2Model ----
(***************************************************************************)
(* NeatReflectionCodeGen: conversion of a parsed module-interface graph    *)
(* (ifc::File) into reflection-registration source text.                   *)
(*                                                                         *)
(* Text is modelled by TLA+ strings and built by concatenation exactly as  *)
(* the C++ builds std::string values.  The registration statements and     *)
(* the member/base fragments that std::format assembles are kept as        *)
(* records of their format arguments, in the order they are appended.      *)
(***************************************************************************)
EXTENDS Integers, Sequences, FiniteSets, TLC

VARIABLES
    ndebug,     \* the build: TRUE when assert() is compiled out (NDEBUG)
    file,       \* CodeGenerator::file, the ifc::File under conversion (read-only)
    code,       \* CodeGenerator::code
    status,     \* how the last write_cpp_file call on the CodeGenerator ended
    calls,      \* number of write_cpp_file calls made on the current CodeGenerator
    outs,       \* what every completed write_cpp_file call wrote to its stream
    dir,        \* main, scan branch: the directory entries not yet iterated
    done,       \* main, scan branch: the entries iterated so far, with their outcome
    exit,       \* main: the process exit status ("running" until main returns)
    tin,        \* type renderer: the type reference handed to render_full_typename
    tout        \* type renderer: what render_full_typename returned for tin

vars == <<ndebug, file, code, status, calls, outs, dir, done, exit, tin, tout>>

(***************************************************************************)
(* Results of the functions: a returned value, or a failure.  fail holds   *)
(* the ways the call can fail: "throw" (a ContextualException) or "abort"  *)
(* (a failed assert, in a build with assertions).                          *)
(***************************************************************************)
Ok(v) == [ok |-> TRUE, val |-> v, fail |-> {}]
Throw == [ok |-> FALSE, val |-> <<>>, fail |-> {"throw"}]
Abort == [ok |-> FALSE, val |-> <<>>, fail |-> {"abort"}]

\* r; K(r): the statements K run after the call that returned r, if it returned
Bind(r, K(_)) == IF r.ok THEN K(r.val) ELSE r

\* a + b on two rendered strings. The operands of operator+ are evaluated in
\* an unspecified order, so when both fail either failure can be the one raised.
Cat(a, b) ==
    IF a.ok /\ b.ok THEN Ok(a.val \o b.val)
    ELSE [ok |-> FALSE, val |-> <<>>, fail |-> a.fail \cup b.fail]

NullType == [sort |-> "Null"]
NullDecl == [sort |-> "Null"]

(***************************************************************************)
(* Namespace resolver                                                      *)
(***************************************************************************)
HomeScopeSorts ==
    {"Variable", "Field", "Scope", "Intrinsic", "Enumeration", "Alias", "Template",
     "Concept", "Function", "Method", "Constructor", "Destructor", "UsingDeclaration"}

NamedDeclSorts == {"Parameter", "Scope", "Template", "Function", "Enumeration"}

render_refered_declaration(decl) ==
    IF decl.sort \in NamedDeclSorts THEN Ok(decl.name)
    ELSE IF ndebug THEN Ok("<UNEXPECTED_DECLSORT " \o decl.sort \o ">")
    ELSE Abort

render_namespace_of_home_scope_only(index) ==
    IF index.sort \notin HomeScopeSorts THEN Throw
    ELSE IF index.home_scope = NullDecl THEN Ok("")
    ELSE Cat(render_refered_declaration(index.home_scope), Ok("::"))

RECURSIVE render_namespace(_)
render_namespace(index) ==
    IF index.sort \notin HomeScopeSorts THEN Throw
    ELSE IF index.home_scope = NullDecl THEN Ok("")
    ELSE Bind(Cat(render_namespace(index.home_scope),
                  render_refered_declaration(index.home_scope)),
              LAMBDA rendered_namespace :
                  IF rendered_namespace = "" THEN Ok("")
                  ELSE Ok(rendered_namespace \o "::"))

(***************************************************************************)
(* Type renderer                                                           *)
(***************************************************************************)
has_qualifier(qualifiers, q) == q \in qualifiers

render_qualifiers(qualifiers) ==
    (IF has_qualifier(qualifiers, "Const") THEN "const " ELSE "")
    \o (IF has_qualifier(qualifiers, "Volatile") THEN "volatile " ELSE "")

BasisKeyword(basis) ==
    CASE basis = "Void" -> "void"
      [] basis = "Bool" -> "bool"
      [] basis = "Char" -> "char"
      [] basis = "Wchar_t" -> "wchar_t"
      [] basis = "Int" -> "int"
      [] basis = "Float" -> "float"
      [] basis = "Double" -> "double"
      [] OTHER -> "<UNEXPECTED_FUNCAMENTAL_TYPE " \o basis \o ">"

SignPrefix(sign) == IF sign = "Unsigned" THEN "unsigned " ELSE ""
UnexpectedBitness(precision) == "<UNEXPECTED_BITNESS " \o precision \o ">"
SizedChar(precision) ==
    CASE precision = "Bit8" -> "char8_t"
      [] precision = "Bit16" -> "char16_t"
      [] precision = "Bit32" -> "char32_t"

render_fundamental(type) ==
    CASE type.precision = "Default" -> Ok(SignPrefix(type.sign) \o BasisKeyword(type.basis))
      [] type.precision = "Short" ->
            IF type.basis # "Int" /\ ~ndebug THEN Abort ELSE Ok("short")
      [] type.precision = "Long" ->
            Ok(SignPrefix(type.sign) \o "long " \o BasisKeyword(type.basis))
      [] type.precision = "Bit64" ->
            IF type.basis # "Int" /\ ~ndebug THEN Abort ELSE Ok("long long")
      [] type.precision \in {"Bit8", "Bit16", "Bit32"} /\ type.basis = "Char" ->
            Ok(SizedChar(type.precision))
      [] type.precision \in {"Bit8", "Bit16", "Bit32", "Bit128"} ->
            Ok(SignPrefix(type.sign) \o UnexpectedBitness(type.precision)
                   \o BasisKeyword(type.basis))
      [] OTHER -> Ok(SignPrefix(type.sign) \o BasisKeyword(type.basis))

RECURSIVE render_full_typename(_)
RECURSIVE render_tuple(_, _)

\* render_full_typename(const ifc::TupleType&): the loop from element i on
render_tuple(elems, i) ==
    IF i > Len(elems) THEN Ok("")
    ELSE Bind(render_full_typename(elems[i]), LAMBDA elem :
         Bind(render_tuple(elems, i + 1), LAMBDA rest :
             Ok((IF i = 1 THEN "" ELSE ", ") \o elem \o rest)))

render_full_typename(t) ==
    CASE t.sort = "Fundamental" -> render_fundamental(t)
      [] t.sort = "Designated" ->
            Cat(render_namespace(t.decl), render_refered_declaration(t.decl))
      [] t.sort = "Pointer" -> Cat(render_full_typename(t.pointee), Ok("*"))
      [] t.sort = "LvalueReference" -> Cat(render_full_typename(t.referee), Ok("&"))
      [] t.sort = "RvalueReference" -> Cat(render_full_typename(t.referee), Ok("&&"))
      [] t.sort = "Qualified" ->
            Cat(Ok(render_qualifiers(t.qualifiers)), render_full_typename(t.unqualified))
      [] t.sort = "Base" -> render_full_typename(t.type)
      [] t.sort = "Placeholder" ->
            IF t.elaboration # NullType THEN render_full_typename(t.elaboration)
            ELSE IF ndebug THEN Ok("PLACEHOLDER_TYPE")
            ELSE Abort
      [] t.sort = "Tuple" -> render_tuple(t.elems, 1)
      [] t.sort = "Function" ->
            Bind(render_full_typename(t.target), LAMBDA return_type :
            Bind(IF t.source # NullType THEN render_full_typename(t.source) ELSE Ok(""),
                 LAMBDA parameter_types :
                     Ok(return_type \o " (" \o parameter_types \o ")")))
      [] OTHER -> Ok("<UNSUPPORTED_TYPE " \o t.sort \o ">")

(***************************************************************************)
(* Access rendering and the visibility filter                              *)
(***************************************************************************)
AccessValues == {"None", "Private", "Protected", "Public"}

render_as_neat_access_enum(access, value_for_none) ==
    CASE access = "None" -> Ok(value_for_none)
      [] access = "Private" -> Ok("Neat::Access::Private")
      [] access = "Protected" -> Ok("Neat::Access::Protected")
      [] access = "Public" -> Ok("Neat::Access::Public")
      [] OTHER -> Throw

\* The default argument of render_as_neat_access_enum's value_for_none,
\* declared in CodeGenerator.h.
value_for_none_default == ""

\* Declared and defined in CodeGenerator.h.
is_member_publicly_accessible(member, kind, reflect_private_members) ==
    \/ reflect_private_members
    \/ member.access = "Public"
    \/ member.access = "None" /\ kind = "Struct"

(***************************************************************************)
(* Member emitter                                                          *)
(***************************************************************************)
\* the value_for_none that render_members passes for a field
FieldValueForNone == "Access::..."

\* The arguments of one Field::create<...>(...) fragment
render_field(type_name, field) ==
    Bind(render_full_typename(field.type), LAMBDA type :
    Bind(render_as_neat_access_enum(field.access, FieldValueForNone), LAMBDA access :
        Ok([type_name |-> type_name, type |-> type,
            name |-> field.name, access |-> access])))

\* The arguments of one Method::create<...>(...) fragment
render_method(type_name, method) ==
    Bind(render_full_typename(method.type.target), LAMBDA return_type :
    Bind(IF method.type.source # NullType
         THEN Cat(Ok(", "), render_full_typename(method.type.source))
         ELSE Ok(""),
         LAMBDA param_types :
    Bind(render_as_neat_access_enum(method.access, value_for_none_default), LAMBDA access :
        Ok([type_name |-> type_name, return_type |-> return_type,
            param_types |-> param_types, name |-> method.name, access |-> access]))))

add_fragment_in_front(rendered, fragment) == <<fragment>> \o rendered

\* fields += ..., methods += ..., rendered += ...: a fragment joins the end of the string
add_fragment(rendered, fragment) == Append(rendered, fragment)

\* The loop of render_members from declaration i on; acc holds the fields and
\* methods strings built so far, as the sequences of their fragments.
RECURSIVE render_members_from(_, _, _, _, _)

render_members_filtering_first(type_name, scope_decl, reflect_private_members, i, acc) ==
    IF i > Len(scope_decl.members) THEN Ok(acc)
    ELSE LET decl == scope_decl.members[i]
             emit == is_member_publicly_accessible(decl, scope_decl.kind,
                                                   reflect_private_members)
             next(a) == render_members_from(type_name, scope_decl,
                                            reflect_private_members, i + 1, a)
         IN  CASE decl.sort = "Field" /\ emit ->
                    Bind(render_field(type_name, decl), LAMBDA fragment :
                        next([acc EXCEPT !.fields = add_fragment(@, fragment)]))
               [] decl.sort = "Method" /\ emit ->
                    Bind(render_method(type_name, decl), LAMBDA fragment :
                        next([acc EXCEPT !.methods = add_fragment(@, fragment)]))
               [] OTHER -> next(acc)

render_members_from(type_name, scope_decl, reflect_private_members, i, acc) ==
    IF i > Len(scope_decl.members) THEN Ok(acc)
    ELSE LET decl == scope_decl.members[i]
             emit == is_member_publicly_accessible(decl, scope_decl.kind,
                                                   reflect_private_members)
             next(a) == render_members_from(type_name, scope_decl,
                                            reflect_private_members, i + 1, a)
         IN  CASE decl.sort = "Field" ->
                    Bind(render_field(type_name, decl), LAMBDA fragment :
                        next(IF emit
                             THEN [acc EXCEPT !.fields = add_fragment(@, fragment)]
                             ELSE acc))
               [] decl.sort = "Method" ->
                    Bind(render_method(type_name, decl), LAMBDA fragment :
                        next(IF emit
                             THEN [acc EXCEPT !.methods = add_fragment(@, fragment)]
                             ELSE acc))
               [] OTHER -> next(acc)

render_members(type_name, scope_decl, reflect_private_members) ==
    render_members_from(type_name, scope_decl, reflect_private_members, 1,
                        [fields |-> <<>>, methods |-> <<>>])

(***************************************************************************)
(* Base-class emission                                                     *)
(***************************************************************************)
default_access(scope_decl) == IF scope_decl.kind = "Class" THEN "private" ELSE "public"

\* The arguments of one BaseClass{ ... } fragment
render_base(base_type, value_for_none) ==
    Bind(render_as_neat_access_enum(base_type.access, value_for_none),
         LAMBDA access_string :
    Bind(render_full_typename(base_type.type), LAMBDA type_name :
        Ok([type |-> type_name, access |-> access_string])))

\* The loop of render_bases over the elements of a base tuple, from element i on
RECURSIVE render_base_tuple(_, _, _, _)
render_base_tuple(elems, value_for_none, i, rendered) ==
    IF i > Len(elems) THEN Ok(rendered)
    ELSE IF elems[i].sort = "Base"
    THEN Bind(render_base(elems[i], value_for_none), LAMBDA fragment :
             render_base_tuple(elems, value_for_none, i + 1,
                               add_fragment(rendered, fragment)))
    ELSE IF ndebug THEN render_base_tuple(elems, value_for_none, i + 1, rendered)
    ELSE Abort

render_bases(scope_decl) ==
    IF scope_decl.base = NullType THEN Ok(<<>>)
    ELSE CASE scope_decl.base.sort = "Base" ->
                Bind(render_base(scope_decl.base, default_access(scope_decl)),
                     LAMBDA fragment : Ok(<<fragment>>))
           [] scope_decl.base.sort = "Tuple" ->
                render_base_tuple(scope_decl.base.elems, default_access(scope_decl), 1, <<>>)
           [] OTHER -> IF ndebug THEN Ok(<<>>) ELSE Abort

(***************************************************************************)
(* Private-reflection opt-in                                               *)
(***************************************************************************)
\* what reflects_private_members returns at a NamedDecl friend
friend_matches(named_decl) ==
    Bind(Cat(render_namespace(named_decl.resolution),
             render_refered_declaration(named_decl.resolution)),
         LAMBDA friend_name :
    Bind(render_full_typename(named_decl.type), LAMBDA rendered_type :
        Ok(friend_name = "Neat::reflect_private_members" /\ rendered_type = "void ()")))

\* The loop of reflects_private_members from friend i on
RECURSIVE reflects_private_members_from(_, _)
reflects_private_members_from(friends, i) ==
    IF i > Len(friends) THEN Ok(FALSE)
    ELSE IF friends[i].sort = "NamedDecl" THEN friend_matches(friends[i])
    ELSE reflects_private_members_from(friends, i + 1)

reflects_private_members(index) == reflects_private_members_from(index.friends, 1)

(***************************************************************************)
(* Exposure filter and the per-type registration statement                 *)
(***************************************************************************)
is_type_exported_always(index) == TRUE

is_type_exported(index) == ~index.nonExported

\* CodeGenerator::render(scope_decl, index) on a generator whose code is
\* buffer: the code after the call
render(scope_decl, buffer) ==
    IF ~is_type_exported(scope_decl) THEN Ok(buffer)
    ELSE Bind(render_namespace(scope_decl), LAMBDA namespace :
         Bind(reflects_private_members(scope_decl), LAMBDA reflect_privates :
         Bind(render_members(namespace \o scope_decl.name, scope_decl, reflect_privates),
              LAMBDA members :
         Bind(render_bases(scope_decl), LAMBDA bases :
             Ok(Append(buffer, [type_name |-> namespace \o scope_decl.name,
                                bases |-> bases,
                                fields |-> members.fields,
                                methods |-> members.methods]))))))

(***************************************************************************)
(* Declaration scanner                                                     *)
(***************************************************************************)
\* a call that failed leaves the code as it was
Unchanged(r, buffer) == IF r.ok THEN r ELSE [r EXCEPT !.val = buffer]

RECURSIVE scan_sequence(_, _, _)

scan_scope_renders_unions(scope_decl, buffer) ==
    CASE scope_decl.kind \in {"Class", "Struct", "Union"} ->
            Unchanged(render(scope_decl, buffer), buffer)
      [] scope_decl.kind = "Namespace" -> scan_sequence(scope_decl.members, 1, buffer)
      [] OTHER -> Ok(buffer)

\* scan(const ifc::ScopeDeclaration&, ifc::DeclIndex)
scan_scope(scope_decl, buffer) ==
    CASE scope_decl.kind \in {"Class", "Struct"} ->
            Unchanged(render(scope_decl, buffer), buffer)
      [] scope_decl.kind = "Union" -> Ok(buffer)
      [] scope_decl.kind = "Namespace" -> scan_sequence(scope_decl.members, 1, buffer)
      [] OTHER -> Ok(buffer)

\* scan(ifc::DeclIndex)
scan_decl(decl, buffer) ==
    IF decl.sort = "Scope" THEN scan_scope(decl, buffer) ELSE Ok(buffer)

\* scan(ifc::Sequence): the loop from declaration i on
scan_sequence(declarations, i, buffer) ==
    IF i > Len(declarations) THEN Ok(buffer)
    ELSE Bind(scan_decl(declarations[i], buffer),
              LAMBDA scanned : scan_sequence(declarations, i + 1, scanned))

scan(scope_desc, buffer) == scan_sequence(scope_desc, 1, buffer)

(***************************************************************************)
(* Output assembler                                                        *)
(***************************************************************************)
code_of_previous_generator == code

\* the code of a CodeGenerator right after construction
constructed_code == <<>>

\* write_cpp_file on a generator whose code is buffer: the code afterwards
\* (when the call returns, the body of the document it wrote)
write_cpp_file(f, buffer) ==
    IF f.unit # "Primary"
    THEN [ok |-> FALSE, val |-> buffer, fail |-> {"throw"}]
    ELSE scan(f.global_scope, buffer)

\* what out holds after out << std::format(template, module_name, code)
document(f, body) == [module_name |-> f.module_name, body |-> body]

(***************************************************************************)
(* Input graphs                                                            *)
(***************************************************************************)
MaxNodes == 3      \* declarations in the scope tree of a scanned file
MaxMembers == 2    \* members of a class
MaxFriends == 2    \* friends of a class
MaxBases == 2      \* bases in a base tuple
MaxWrites == 2     \* write_cpp_file calls per CodeGenerator, and documents kept

Fundamental(basis) ==
    [sort |-> "Fundamental", basis |-> basis, precision |-> "Default", sign |-> "Plain"]
ScopeRef(name, home_scope) == [sort |-> "Scope", name |-> name, home_scope |-> home_scope]
Designated(decl) == [sort |-> "Designated", decl |-> decl]
TupleType(elems) == [sort |-> "Tuple", elems |-> elems]
FunctionType(target, source) == [sort |-> "Function", target |-> target, source |-> source]
BaseType(type, access) == [sort |-> "Base", type |-> type, access |-> access]

\* a type of another module: a Designated type whose declaration is a Reference
ForeignType == Designated([sort |-> "Reference", name |-> "Foreign", home_scope |-> NullDecl])

MemberNames == <<"a", "b", "c", "d", "e">>

FieldDecl(name, type, access) ==
    [sort |-> "Field", name |-> name, type |-> type, access |-> access]
MethodDecl(name, target, source, access) ==
    [sort |-> "Method", name |-> name, access |-> access,
     type |-> [sort |-> "Method", target |-> target, source |-> source]]
VariableDecl == [sort |-> "Variable", name |-> "v", home_scope |-> NullDecl]

MemberShapes ==
    [sort : {"Field", "Method"}, access : AccessValues, foreign : {FALSE}]
    \cup {[sort |-> "Field", access |-> "Private", foreign |-> TRUE],
          [sort |-> "Method", access |-> "Invalid", foreign |-> FALSE],
          [sort |-> "Variable", access |-> "None", foreign |-> FALSE]}

Member(shape, i) ==
    CASE shape.sort = "Field" ->
            FieldDecl(MemberNames[i],
                      IF shape.foreign THEN ForeignType ELSE Fundamental("Int"),
                      shape.access)
      [] shape.sort = "Method" ->
            MethodDecl(MemberNames[i], Fundamental("Void"),
                       IF shape.access = "Public"
                       THEN TupleType(<<Fundamental("Int"), Fundamental("Int")>>)
                       ELSE NullType,
                       shape.access)
      [] OTHER -> VariableDecl

MemberSeqs ==
    UNION {{[i \in 1..n |-> Member(sh[i], i)] : sh \in [1..n -> MemberShapes]}
           : n \in 0..MaxMembers}

NeatFunction(home_scope) ==
    [sort |-> "Function", name |-> "reflect_private_members", home_scope |-> home_scope]
NamedDecl(resolution, type) ==
    [sort |-> "NamedDecl", resolution |-> resolution, type |-> type]

MatchingFriend ==
    NamedDecl(NeatFunction(ScopeRef("Neat", NullDecl)),
              FunctionType(Fundamental("Void"), NullType))
FriendPool ==
    {MatchingFriend,
     NamedDecl(NeatFunction(NullDecl), FunctionType(Fundamental("Void"), NullType)),
     NamedDecl(NeatFunction(ScopeRef("Neat", NullDecl)),
               FunctionType(Fundamental("Void"), TupleType(<<Fundamental("Int")>>))),
     [sort |-> "TemplateId"]}
FriendSeqs == UNION {[1..n -> FriendPool] : n \in 0..MaxFriends}

BaseNames == <<"B1", "B2", "B3", "B4">>
BaseShapes == AccessValues \cup {"NotABase"}
BaseElem(shape, i) ==
    IF shape = "NotABase" THEN Fundamental("Int")
    ELSE BaseType(Designated(ScopeRef(BaseNames[i], NullDecl)), shape)
BaseSpecs ==
    {NullType, Fundamental("Int")}
    \cup {BaseElem(a, 1) : a \in AccessValues}
    \cup UNION {{TupleType([i \in 1..n |-> BaseElem(sh[i], i)]) : sh \in [1..n -> BaseShapes]}
                : n \in 0..MaxBases}

ClassDecl(kind, name, home_scope, nonExported, members, base, friends) ==
    [sort |-> "Scope", kind |-> kind, name |-> name, home_scope |-> home_scope,
     nonExported |-> nonExported, members |-> members, base |-> base, friends |-> friends]
UnionDecl(home_scope) ==
    [sort |-> "Scope", kind |-> "Union", name |-> "U", home_scope |-> home_scope,
     nonExported |-> FALSE, members |-> <<>>, base |-> NullType, friends |-> <<>>]
NamespaceDecl(name, home_scope, members) ==
    [sort |-> "Scope", kind |-> "Namespace", name |-> name, home_scope |-> home_scope,
     nonExported |-> FALSE, members |-> members, base |-> NullType, friends |-> <<>>]

\* the declarations other than namespaces that a scope of the tree can hold
Leaves(home_scope) ==
    {VariableDecl, UnionDecl(home_scope),
     ClassDecl("Struct", "A", home_scope, FALSE,
               <<FieldDecl("health", Fundamental("Int"), "Public")>>, NullType, <<>>),
     ClassDecl("Struct", "B", home_scope, TRUE,
               <<FieldDecl("hidden", Fundamental("Int"), "Public")>>, NullType, <<>>),
     ClassDecl("Class", "C", home_scope, FALSE,
               <<MethodDecl("Hit", Fundamental("Void"), NullType, "Public")>>,
               BaseType(Designated(ScopeRef("A", home_scope)), "Public"), <<>>),
     ClassDecl("Struct", "X", home_scope, FALSE,
               <<FieldDecl("far", ForeignType, "Public")>>, NullType, <<>>)}

NamespaceNames == <<"N1", "N2", "N3", "N4", "N5">>

\* every member sequence of at most n declarations (nested ones included) of a
\* scope at nesting depth d whose declaration is home_scope
RECURSIVE Forests(_, _, _)
Forests(n, d, home_scope) ==
    IF n = 0 THEN {<<>>}
    ELSE {<<>>}
         \cup {<<leaf>> \o rest : leaf \in Leaves(home_scope),
                                 rest \in Forests(n - 1, d, home_scope)}
         \cup UNION {{<<NamespaceDecl(NamespaceNames[d], home_scope, inner)>> \o rest :
                          inner \in Forests(k, d + 1, ScopeRef(NamespaceNames[d], home_scope)),
                          rest \in Forests(n - 1 - k, d, home_scope)}
                     : k \in 0..(n - 1)}

File(unit, global_scope) ==
    [unit |-> unit, module_name |-> "TestModule1", global_scope |-> global_scope]

TreeFiles == {File("Primary", g) : g \in Forests(MaxNodes, 1, NullDecl)}
MemberFiles ==
    {File("Primary", <<ClassDecl(kind, "T", NullDecl, FALSE, members, NullType, friends)>>) :
        kind \in {"Class", "Struct"}, members \in MemberSeqs,
        friends \in {<<>>, <<MatchingFriend>>}}
FriendFiles ==
    {File("Primary", <<ClassDecl(kind, "T", NullDecl, FALSE, members, NullType, friends)>>) :
        kind \in {"Class", "Struct"}, friends \in FriendSeqs,
        members \in {<<FieldDecl("a", Fundamental("Int"), "Private"),
                       MethodDecl("b", Fundamental("Void"), NullType, "Protected")>>}}
BaseFiles ==
    {File("Primary", <<ClassDecl(kind, "T", NullDecl, FALSE, <<>>, base, <<>>)>>) :
        kind \in {"Class", "Struct"}, base \in BaseSpecs}
OtherFiles == {File("Partition", <<>>)}

Files == TreeFiles \cup MemberFiles \cup FriendFiles \cup BaseFiles \cup OtherFiles

(***************************************************************************)
(* The CodeGenerator over one file                                         *)
(***************************************************************************)
NoBatch == dir = <<>> /\ done = <<>> /\ exit = "none"
NoType == tin = NullType /\ tout = <<>>

Init ==
    /\ ndebug \in BOOLEAN
    /\ file \in Files
    /\ code = <<>>
    /\ status = "constructed"
    /\ calls = 0
    /\ outs = <<>>
    /\ NoBatch /\ NoType

\* CodeGenerator::CodeGenerator(file): a fresh generator over the same file
Construct ==
    /\ status \in {"written", "thrown"}
    /\ code' = constructed_code
    /\ status' = "constructed"
    /\ calls' = 0
    /\ UNCHANGED <<ndebug, file, outs, dir, done, exit, tin, tout>>

CanWrite == status # "aborted" /\ calls < MaxWrites /\ Len(outs) < MaxWrites

\* write_cpp_file(out) returns: the document is in the stream
WriteCppFile ==
    /\ CanWrite
    /\ \E r \in {write_cpp_file(file, code)} :
        /\ r.ok
        /\ code' = r.val
        /\ outs' = Append(outs, [doc |-> document(file, r.val), call |-> calls + 1])
    /\ status' = "written"
    /\ calls' = calls + 1
    /\ UNCHANGED <<ndebug, file, dir, done, exit, tin, tout>>

\* write_cpp_file(out) raises a ContextualException
WriteCppFileThrows ==
    /\ CanWrite
    /\ \E r \in {write_cpp_file(file, code)} :
        /\ "throw" \in r.fail
        /\ code' = r.val
    /\ status' = "thrown"
    /\ calls' = calls + 1
    /\ UNCHANGED <<ndebug, file, outs, dir, done, exit, tin, tout>>

\* write_cpp_file(out) hits a failed assert: the process is gone
WriteCppFileAborts ==
    /\ CanWrite
    /\ \E r \in {write_cpp_file(file, code)} :
        /\ "abort" \in r.fail
        /\ code' = r.val
    /\ status' = "aborted"
    /\ calls' = calls + 1
    /\ UNCHANGED <<ndebug, file, outs, dir, done, exit, tin, tout>>

Next == Construct \/ WriteCppFile \/ WriteCppFileThrows \/ WriteCppFileAborts

Spec == Init /\ [][Next]_vars

(***************************************************************************)
(* What the input graph declares (read off the graph, not off the code)    *)
(***************************************************************************)
IsNamespace(d) == d.sort = "Scope" /\ d.kind = "Namespace"
IsAggregate(d) == d.sort = "Scope" /\ d.kind \in {"Class", "Struct"}

\* the exported classes and structs of a member sequence, namespaces entered,
\* depth-first in pre-order
RECURSIVE EligibleTypes(_)
EligibleTypes(declarations) ==
    IF declarations = <<>> THEN <<>>
    ELSE LET d == Head(declarations)
         IN  (IF IsNamespace(d) THEN EligibleTypes(d.members)
              ELSE IF IsAggregate(d) /\ ~d.nonExported THEN <<d>>
              ELSE <<>>)
             \o EligibleTypes(Tail(declarations))

\* every member sequence of the scope tree: the global scope's and each namespace's
RECURSIVE ScopesOf(_)
ScopesOf(declarations) ==
    {declarations}
    \cup UNION {ScopesOf(declarations[i].members) :
                    i \in {j \in DOMAIN declarations : IsNamespace(declarations[j])}}

QualifiedName(d) == render_namespace(d).val \o d.name
FieldsOf(d) == SelectSeq(d.members, LAMBDA m : m.sort = "Field")
MethodsOf(d) == SelectSeq(d.members, LAMBDA m : m.sort = "Method")
NamesOf(decls) == [i \in DOMAIN decls |-> decls[i].name]
AllPublic(d) ==
    \A i \in DOMAIN d.members :
        d.members[i].sort \in {"Field", "Method"} => d.members[i].access = "Public"

\* a class without bases and friends whose members have built-in types
IsBuiltIn(t) == t.sort = "Fundamental" /\ t.precision = "Default"
PlainlyTyped(d) ==
    /\ d.base = NullType /\ d.friends = <<>>
    /\ \A i \in DOMAIN d.members :
        LET m == d.members[i]
        IN  /\ m.sort = "Field" => IsBuiltIn(m.type)
            /\ m.sort = "Method" =>
                /\ IsBuiltIn(m.type.target)
                /\ \/ m.type.source = NullType
                   \/ /\ m.type.source.sort = "Tuple"
                      /\ \A j \in DOMAIN m.type.source.elems :
                             IsBuiltIn(m.type.source.elems[j])

\* the first write_cpp_file call of a CodeGenerator returned: code is the body
\* of the document, one registration statement per rendered type
Converted == status = "written" /\ calls = 1
Eligible == EligibleTypes(file.global_scope)

(***************************************************************************)
(* C1: for a class or struct whose Field and Method members are all        *)
(* Public, render_members returns one field fragment per Field member and  *)
(* one method fragment per Method member, in declaration order.            *)
(***************************************************************************)
C1_PublicMembersInDeclarationOrder ==
    /\ Converted =>
        \A k \in DOMAIN code \cap DOMAIN Eligible :
            AllPublic(Eligible[k]) =>
                /\ NamesOf(code[k].fields) = NamesOf(FieldsOf(Eligible[k]))
                /\ NamesOf(code[k].methods) = NamesOf(MethodsOf(Eligible[k]))
                /\ \A i \in DOMAIN code[k].fields :
                       code[k].fields[i].access = "Neat::Access::Public"
                /\ \A i \in DOMAIN code[k].methods :
                       code[k].methods[i].access = "Neat::Access::Public"
    \* and render_members does return for such a type when the types of its
    \* members are built-in ones
    /\ calls = 1 /\ file.unit = "Primary"
       /\ (\A k \in DOMAIN Eligible :
              AllPublic(Eligible[k]) /\ PlainlyTyped(Eligible[k]))
       => Converted

C1_witness ==
    /\ Converted
    /\ \E k \in DOMAIN code \cap DOMAIN Eligible :
        /\ AllPublic(Eligible[k])
        /\ Len(FieldsOf(Eligible[k])) + Len(MethodsOf(Eligible[k])) = MaxMembers
        /\ Len(code[k].fields) + Len(code[k].methods) = MaxMembers
        /\ \/ Len(code[k].fields) >= 2
           \/ Len(code[k].methods) >= 2

(***************************************************************************)
(* C2: the registration statements of the body are those of the exported   *)
(* classes and structs met by a depth-first pre-order walk of the global   *)
(* scope that enters namespaces and skips unions and non-scope members, in *)
(* the order of that walk.                                                 *)
(***************************************************************************)
C2_BodyInPreOrder ==
    Converted =>
        [k \in DOMAIN code |-> code[k].type_name]
            = [k \in DOMAIN Eligible |-> QualifiedName(Eligible[k])]

C2_witness ==
    /\ Converted
    /\ Len(code) >= 2
    /\ \E i \in DOMAIN file.global_scope :
        /\ IsNamespace(file.global_scope[i])
        /\ EligibleTypes(file.global_scope[i].members) # <<>>
        /\ i < Len(file.global_scope)

(***************************************************************************)
(* C3: a class or struct with the NonExported bit has no registration      *)
(* statement in the body, and the exported classes and structs declared    *)
(* beside it in the same scope all have theirs.                            *)
(***************************************************************************)
C3_NonExportedSkippedSiblingsEmitted ==
    Converted =>
        \A scope \in ScopesOf(file.global_scope) :
            \A i \in DOMAIN scope :
                IsAggregate(scope[i]) /\ scope[i].nonExported =>
                    /\ \A k \in DOMAIN code : code[k].type_name # QualifiedName(scope[i])
                    /\ \A j \in DOMAIN scope :
                           IsAggregate(scope[j]) /\ ~scope[j].nonExported =>
                               \E k \in DOMAIN code :
                                   code[k].type_name = QualifiedName(scope[j])

C3_witness ==
    /\ Converted
    /\ \E scope \in ScopesOf(file.global_scope) :
        \E i, j \in DOMAIN scope :
            /\ i < j
            /\ IsAggregate(scope[i]) /\ scope[i].nonExported
            /\ IsAggregate(scope[j]) /\ ~scope[j].nonExported
            /\ \E k \in DOMAIN code : code[k].type_name = QualifiedName(scope[j])

\* the fragments of registration statement reg that member m produced
FragmentsOf(reg, m) ==
    LET list == IF m.sort = "Field" THEN reg.fields ELSE reg.methods
    IN  {list[i] : i \in {j \in DOMAIN list : list[j].name = m.name}}
EmittableMembers(d) ==
    {d.members[i] : i \in {j \in DOMAIN d.members : d.members[j].sort \in {"Field", "Method"}}}
NeatAccess(access) == "Neat::Access::" \o access
DefaultAccess(d) == IF d.kind = "Struct" THEN "Public" ELSE "Private"

\* some friend of d, at any position, names Neat::reflect_private_members with
\* signature void()
HasOptInFriend(d) ==
    \E i \in DOMAIN d.friends :
        /\ d.friends[i].sort = "NamedDecl"
        /\ friend_matches(d.friends[i]).ok
        /\ friend_matches(d.friends[i]).val

(***************************************************************************)
(* C4: a Field or Method member with access None counts as Public in a     *)
(* Struct and as Private in a Class, both when deciding whether a fragment *)
(* is emitted for it and in the access its fragment carries.               *)
(***************************************************************************)
C4_UnspecifiedAccessTakesKindDefault ==
    Converted =>
        \A k \in DOMAIN code \cap DOMAIN Eligible :
            \A m \in EmittableMembers(Eligible[k]) :
                m.access = "None" =>
                    /\ FragmentsOf(code[k], m) # {}
                           <=> (DefaultAccess(Eligible[k]) = "Public"
                                \/ HasOptInFriend(Eligible[k]))
                    /\ \A fragment \in FragmentsOf(code[k], m) :
                           fragment.access = NeatAccess(DefaultAccess(Eligible[k]))

(***************************************************************************)
(* C5: without a friend Neat::reflect_private_members / void() a type has  *)
(* no fragment for a Private or Protected member; with such a friend every *)
(* Field and Method member has a fragment, carrying the member's access.   *)
(***************************************************************************)
C5_PrivateMembersOnlyWithOptInFriend ==
    Converted =>
        \A k \in DOMAIN code \cap DOMAIN Eligible :
            \A m \in EmittableMembers(Eligible[k]) :
                IF HasOptInFriend(Eligible[k])
                THEN /\ FragmentsOf(code[k], m) # {}
                     /\ m.access # "None" =>
                            \A fragment \in FragmentsOf(code[k], m) :
                                fragment.access = NeatAccess(m.access)
                ELSE m.access \in {"Private", "Protected"} => FragmentsOf(code[k], m) = {}

(***************************************************************************)
(* C6: reflects_private_members returns true exactly when some friend of   *)
(* the type, at any position of the friend list, is a named declaration    *)
(* Neat::reflect_private_members with signature void().                    *)
(***************************************************************************)
C6_OptInFoundAtAnyPosition ==
    Converted =>
        \A k \in DOMAIN Eligible :
            reflects_private_members(Eligible[k]).ok =>
                reflects_private_members(Eligible[k]).val = HasOptInFriend(Eligible[k])

(***************************************************************************)
(* C7 as stated: all write_cpp_file calls over one file, on one generator  *)
(* or on several, write the same document.                                 *)
(***************************************************************************)
C7_AllDocumentsIdentical ==
    \A i, j \in DOMAIN outs : outs[i].doc = outs[j].doc

(***************************************************************************)
(* C7 amended: the first write_cpp_file calls of CodeGenerators over the   *)
(* same file write the same document, and so do their n-th calls; an n-th  *)
(* call on one generator writes the registration statements n times,       *)
(* because code is never cleared.                                          *)
(***************************************************************************)
RECURSIVE Repeated(_, _)
Repeated(body, n) == IF n = 0 THEN <<>> ELSE body \o Repeated(body, n - 1)

C7_DocumentDependsOnGraphAndEarlierCalls ==
    \A i, j \in DOMAIN outs :
        /\ outs[i].call = outs[j].call => outs[i].doc = outs[j].doc
        /\ outs[j].call = 1 =>
               outs[i].doc.body = Repeated(outs[j].doc.body, outs[i].call)

C7_witness ==
    /\ Len(outs) = 2
    /\ outs[1].call = 1 /\ outs[2].call = 1
    /\ outs[2].doc.body # <<>>
    /\ outs[1].doc = outs[2].doc

(***************************************************************************)
(* C9: render_bases returns one fragment per declared base, in declaration *)
(* order (none for a null base, one for a Base, k for a Tuple of k Bases); *)
(* a fragment's access is the base's access when that is not None, else    *)
(* Neat::Access::Private in a Class and Neat::Access::Public in a Struct.  *)
(***************************************************************************)
DeclaredBases(d) ==
    IF d.base = NullType THEN <<>>
    ELSE IF d.base.sort = "Base" THEN <<d.base>>
    ELSE d.base.elems

BasesWellFormed(d) ==
    \/ d.base = NullType
    \/ d.base.sort = "Base"
    \/ d.base.sort = "Tuple" /\ \A i \in DOMAIN d.base.elems : d.base.elems[i].sort = "Base"

C9_OneFragmentPerBaseWithEffectiveAccess ==
    Converted =>
        \A k \in DOMAIN code \cap DOMAIN Eligible :
            BasesWellFormed(Eligible[k]) =>
                LET declared == DeclaredBases(Eligible[k])
                IN  /\ Len(code[k].bases) = Len(declared)
                    /\ \A i \in DOMAIN declared \cap DOMAIN code[k].bases :
                        /\ code[k].bases[i].type = render_full_typename(declared[i].type).val
                        /\ code[k].bases[i].access =
                               IF declared[i].access # "None"
                               THEN NeatAccess(declared[i].access)
                               ELSE NeatAccess(DefaultAccess(Eligible[k]))

(***************************************************************************)
(* The type renderer on its own: render_full_typename applied to a type    *)
(***************************************************************************)
MaxDepth == 2      \* type layers wrapped around an innermost type

QualifierSets == SUBSET {"Const", "Volatile", "Restrict"}
Qualified(qualifiers, unqualified) ==
    [sort |-> "Qualified", qualifiers |-> qualifiers, unqualified |-> unqualified]
Pointer(pointee) == [sort |-> "Pointer", pointee |-> pointee]
LvalueReference(referee) == [sort |-> "LvalueReference", referee |-> referee]
RvalueReference(referee) == [sort |-> "RvalueReference", referee |-> referee]
Placeholder(elaboration) == [sort |-> "Placeholder", elaboration |-> elaboration]

FundamentalTypes ==
    [sort : {"Fundamental"},
     basis : {"Void", "Bool", "Char", "Wchar_t", "Int", "Float", "Double", "Nullptr"},
     precision : {"Default", "Short", "Long", "Bit8", "Bit16", "Bit32", "Bit64", "Bit128"},
     sign : {"Plain", "Signed", "Unsigned"}]

InnermostTypes ==
    {Fundamental("Int"), Fundamental("Void"),
     Designated(ScopeRef("A", ScopeRef("N1", NullDecl))),
     Designated([sort |-> "Parameter", name |-> "T"]),
     ForeignType, Placeholder(NullType), [sort |-> "Method"], [sort |-> "Decltype"]}

Wrapped(t) ==
    {Pointer(t), LvalueReference(t), RvalueReference(t), Placeholder(t),
     BaseType(t, "Public"), TupleType(<<t>>), TupleType(<<t, Fundamental("Int")>>),
     FunctionType(t, NullType), FunctionType(Fundamental("Void"), t)}
    \cup {Qualified(q, t) : q \in QualifierSets}

RECURSIVE TypesOfDepth(_)
TypesOfDepth(n) ==
    IF n = 0 THEN InnermostTypes
    ELSE LET inner == TypesOfDepth(n - 1)
         IN  inner \cup UNION {Wrapped(t) : t \in inner}

TypeInputs(depth) == FundamentalTypes \cup TypesOfDepth(depth)

InitType ==
    /\ ndebug \in BOOLEAN
    /\ tin \in TypeInputs(MaxDepth)
    /\ tout = <<>>
    /\ file = File("Partition", <<>>)
    /\ code = <<>> /\ status = "constructed" /\ calls = 0 /\ outs = <<>>
    /\ NoBatch

\* render_full_typename(tin) returns a string
RenderFullTypename ==
    /\ tin # NullType /\ tout = <<>>
    /\ \E r \in {render_full_typename(tin)} :
        /\ r.ok
        /\ tout' = <<r>>
    /\ UNCHANGED <<ndebug, file, code, status, calls, outs, dir, done, exit, tin>>

\* render_full_typename(tin) raises an exception or fails an assert
RenderFullTypenameFails ==
    /\ tin # NullType /\ tout = <<>>
    /\ \E how \in render_full_typename(tin).fail :
           tout' = <<[ok |-> FALSE, val |-> <<>>, fail |-> {how}]>>
    /\ UNCHANGED <<ndebug, file, code, status, calls, outs, dir, done, exit, tin>>

NextType == RenderFullTypename \/ RenderFullTypenameFails

SpecType == InitType /\ [][NextType]_vars

(***************************************************************************)
(* C8: every way of building "const volatile T" (one Qualified node with   *)
(* both bits, or a Qualified node with one bit around a Qualified node     *)
(* with the other, in either order) renders to the same text, the          *)
(* qualifier keywords in one fixed order before the text of T; the         *)
(* Restrict bit does not change the text.                                  *)
(***************************************************************************)
CV(qualifiers) == qualifiers \cap {"Const", "Volatile"}
CanonicalQualifiers(qualifiers) ==
    (IF "Const" \in qualifiers THEN "const " ELSE "")
    \o (IF "Volatile" \in qualifiers THEN "volatile " ELSE "")

C8_EquivalentQualifiedTypesRenderAlike ==
    tout # <<>> /\ tout[1].ok /\ tin.sort = "Qualified" =>
        LET inner == tin.unqualified
        IN  IF inner.sort # "Qualified"
            THEN tout[1].val = CanonicalQualifiers(CV(tin.qualifiers))
                                    \o render_full_typename(inner).val
            ELSE inner.unqualified.sort # "Qualified"
                 /\ CV(tin.qualifiers) \cap CV(inner.qualifiers) = {}
                 => tout[1].val =
                        CanonicalQualifiers(CV(tin.qualifiers) \cup CV(inner.qualifiers))
                            \o render_full_typename(inner.unqualified).val

(***************************************************************************)
(* C13: a Fundamental type renders as sign prefix, precision keyword and   *)
(* basis keyword for every sign, precision and basis: an Unsigned type     *)
(* starts with "unsigned " (unsigned short and unsigned long long too),    *)
(* Bit8/Bit16/Bit32 of basis Char are char8_t/char16_t/char32_t, and every *)
(* other Bit8/Bit16/Bit32/Bit128 type holds a marker naming the precision. *)
(***************************************************************************)
\* the texts after the sign prefix that the claim admits for a type
FundamentalTexts(type) ==
    CASE type.precision = "Default" -> {BasisKeyword(type.basis)}
      [] type.precision = "Short" -> {"short", "short " \o BasisKeyword(type.basis)}
      [] type.precision = "Long" -> {"long " \o BasisKeyword(type.basis)}
      [] type.precision = "Bit64" -> {"long long", "long long " \o BasisKeyword(type.basis)}
      [] type.precision \in {"Bit8", "Bit16", "Bit32"} /\ type.basis = "Char" ->
            {SizedChar(type.precision)}
      [] OTHER -> {UnexpectedBitness(type.precision) \o BasisKeyword(type.basis)}

C13_FundamentalIsSignPrecisionBasis ==
    tout # <<>> /\ tout[1].ok /\ tin.sort = "Fundamental" =>
        \E text \in FundamentalTexts(tin) :
            \/ tout[1].val = SignPrefix(tin.sign) \o text
            \/ tin.precision \in {"Bit8", "Bit16", "Bit32"} /\ tin.basis = "Char"
               /\ tout[1].val = text

(***************************************************************************)
(* Failures with context: CodeGenException and ContextArea                 *)
(***************************************************************************)
\* the exception object a throw ContextualException(message) constructs
ContextualException(message) == [message |-> message, context |-> <<>>]

\* CodeGenException::add_context, declared in ContextualException.h; its
\* definition is not part of the sources.
add_context(exception, context) ==
    [exception EXCEPT !.context = Append(@, context)]

\* The exception that leaves render_namespace(index) when it throws: the one
\* constructed at the throw statement of the activation that met the
\* unsupported sort. The activations it unwinds through hold no ContextArea,
\* so they pass it on as it is.
RECURSIVE render_namespace_exception(_)
render_namespace_exception(index) ==
    IF index.sort \notin HomeScopeSorts
    THEN ContextualException("Cannot get the home_scope for a decl sort of: " \o index.sort)
    ELSE render_namespace_exception(index.home_scope)

\* ~ContextArea() while exception is in flight. The destructor rethrows
\* std::current_exception(), read during stack unwinding, when no handler is
\* active yet: where that is the exception in flight itself the frame is added
\* to it; where std::rethrow_exception throws a copy the frame goes to the
\* copy and is lost; where it is a null pointer, or the exception is not a
\* CodeGenException, an exception leaves the destructor and the process
\* terminates.
ContextArea_destructor(exception, context) ==
    {[terminated |-> FALSE, exception |-> add_context(exception, context)],
     [terminated |-> FALSE, exception |-> exception],
     [terminated |-> TRUE, exception |-> exception]}

\* the frame of convert_ifc_file's ContextArea
filename_context == "While loading ifc file. And preparing to output to"

(***************************************************************************)
(* The namespace resolver on its own: render_namespace applied to a        *)
(* declaration, inside a conversion                                        *)
(***************************************************************************)
MaxScopes == 3     \* home scopes above a declaration

ScopeNames == {"", "N", "M"}
ChainSorts == {"Scope", "Method", "Reference"}
DeclSorts == {"Scope", "Field", "Parameter", "Friend"}

\* the home-scope references of at most n levels
RECURSIVE HomeScopes(_)
HomeScopes(n) ==
    IF n = 0 THEN {NullDecl}
    ELSE LET outer == HomeScopes(n - 1)
         IN  outer \cup [sort : ChainSorts, name : ScopeNames, home_scope : outer]

DeclInputs(levels) == [sort : DeclSorts, name : {"T"}, home_scope : HomeScopes(levels)]

InitNamespace ==
    /\ ndebug \in BOOLEAN
    /\ tin \in DeclInputs(MaxScopes)
    /\ tout = <<>>
    /\ file = File("Partition", <<>>)
    /\ code = <<>> /\ status = "constructed" /\ calls = 0 /\ outs = <<>>
    /\ NoBatch

\* render_namespace(tin) returns a prefix
RenderNamespace ==
    /\ tout = <<>>
    /\ \E r \in {render_namespace(tin)} :
        /\ r.ok
        /\ tout' = <<[at |-> "returned", val |-> r.val]>>
    /\ UNCHANGED <<ndebug, file, code, status, calls, outs, dir, done, exit, tin>>

\* render_namespace(tin) throws: the exception leaves render_namespace
RenderNamespaceThrows ==
    /\ tout = <<>>
    /\ "throw" \in render_namespace(tin).fail
    /\ tout' = <<[at |-> "thrown", exception |-> render_namespace_exception(tin)]>>
    /\ UNCHANGED <<ndebug, file, code, status, calls, outs, dir, done, exit, tin>>

\* render_namespace(tin) fails an assert of render_refered_declaration
RenderNamespaceAborts ==
    /\ tout = <<>>
    /\ "abort" \in render_namespace(tin).fail
    /\ tout' = <<[at |-> "aborted"]>>
    /\ UNCHANGED <<ndebug, file, code, status, calls, outs, dir, done, exit, tin>>

\* the exception unwinds through convert_ifc_file, whose filename_context is
\* destroyed on the way, and reaches its catch (...)
ConvertIfcFileCatches ==
    /\ tout # <<>> /\ tout[1].at = "thrown"
    /\ \E o \in ContextArea_destructor(tout[1].exception, filename_context) :
        tout' = <<[at |-> IF o.terminated THEN "terminated" ELSE "caught",
                   exception |-> o.exception]>>
    /\ UNCHANGED <<ndebug, file, code, status, calls, outs, dir, done, exit, tin>>

NextNamespace ==
    RenderNamespace \/ RenderNamespaceThrows \/ RenderNamespaceAborts
    \/ ConvertIfcFileCatches

SpecNamespace == InitNamespace /\ [][NextNamespace]_vars

\* the home scopes of a declaration, outermost first
RECURSIVE HomeScopeChain(_)
HomeScopeChain(index) ==
    IF index.home_scope = NullDecl THEN <<>>
    ELSE Append(HomeScopeChain(index.home_scope), index.home_scope)

\* the activations of render_namespace above the one that throws
RECURSIVE UnwoundLevels(_)
UnwoundLevels(index) ==
    IF index.sort \notin HomeScopeSorts THEN 0
    ELSE 1 + UnwoundLevels(index.home_scope)

(***************************************************************************)
(* C11: the exception that reaches the top after render_namespace threw k  *)
(* recursion levels down carries one context frame for each of the k       *)
(* levels it unwound through (innermost first), besides the frame of the   *)
(* conversion.                                                             *)
(***************************************************************************)
C11_OneFramePerNestingLevel ==
    tout # <<>> /\ tout[1].at = "caught" =>
        Len(SelectSeq(tout[1].exception.context, LAMBDA c : c # filename_context))
            = UnwoundLevels(tin)

\* a home-scope chain made of scope declarations only
ScopesOnly(index) ==
    \A i \in DOMAIN HomeScopeChain(index) : HomeScopeChain(index)[i].sort = "Scope"

RECURSIVE JoinedNames(_)
JoinedNames(chain) ==
    IF chain = <<>> THEN ""
    ELSE JoinedNames(SubSeq(chain, 1, Len(chain) - 1)) \o chain[Len(chain)].name \o "::"

\* the same without the unnamed scopes at the outer end of the chain
RECURSIVE JoinedNamesFromFirstNamed(_)
JoinedNamesFromFirstNamed(chain) ==
    IF chain = <<>> THEN ""
    ELSE IF Head(chain).name = "" THEN JoinedNamesFromFirstNamed(Tail(chain))
    ELSE JoinedNames(chain)

(***************************************************************************)
(* C12 as stated: for a declaration of a supported sort whose home scopes  *)
(* are S1..Sk, outermost first, render_namespace returns name(S1) "::" ... *)
(* name(Sk) "::", the empty string for k = 0; for a declaration of a sort  *)
(* that carries no home scope it throws.                                   *)
(***************************************************************************)
C12_PrefixIsEveryScopeNameWithSeparator ==
    tout # <<>> =>
        /\ tin.sort \in HomeScopeSorts /\ ScopesOnly(tin) =>
            /\ tout[1].at = "returned"
            /\ tout[1].val = JoinedNames(HomeScopeChain(tin))
        /\ tin.sort \notin HomeScopeSorts => tout[1].at # "returned"

(***************************************************************************)
(* C12 amended: render_namespace returns name(Sj) "::" ... name(Sk) "::"   *)
(* where Sj is the outermost home scope with a non-empty name (the empty   *)
(* string when no home scope has a name): unnamed scopes at the outer end  *)
(* of the chain add neither a name nor a separator. For a declaration of a *)
(* sort that carries no home scope it throws.                              *)
(***************************************************************************)
C12_PrefixStartsAtOutermostNamedScope ==
    tout # <<>> =>
        /\ tin.sort \in HomeScopeSorts /\ ScopesOnly(tin) =>
            /\ tout[1].at = "returned"
            /\ tout[1].val = JoinedNamesFromFirstNamed(HomeScopeChain(tin))
        /\ tin.sort \notin HomeScopeSorts => tout[1].at # "returned"

C12_witness ==
    /\ tout # <<>> /\ tout[1].at = "returned"
    /\ ScopesOnly(tin)
    /\ Len(HomeScopeChain(tin)) = MaxScopes
    /\ HomeScopeChain(tin)[1].name = ""
    /\ HomeScopeChain(tin)[2].name = "N"
    /\ HomeScopeChain(tin)[3].name = "M"
    /\ tout[1].val = "N::M::"

(***************************************************************************)
(* main, scan branch: every .ifc file of a directory is converted          *)
(***************************************************************************)
MaxEntries == 3    \* entries of the scanned directory

EntryStems == <<"m1", "m2", "m3", "m4", "m5">>

GoodFile ==
    File("Primary", <<ClassDecl("Struct", "A", NullDecl, FALSE,
                                <<FieldDecl("health", Fundamental("Int"), "Public")>>,
                                NullType, <<>>)>>)
ThrowingFile ==
    File("Primary", <<ClassDecl("Struct", "X", NullDecl, FALSE,
                                <<FieldDecl("far", ForeignType, "Public")>>,
                                NullType, <<>>)>>)
PartlyThrowingFile ==
    File("Primary", <<ClassDecl("Struct", "A", NullDecl, FALSE,
                                <<FieldDecl("health", Fundamental("Int"), "Public")>>,
                                NullType, <<>>),
                      ClassDecl("Struct", "X", NullDecl, FALSE,
                                <<FieldDecl("far", ForeignType, "Public")>>,
                                NullType, <<>>)>>)
UndeducedFile ==
    File("Primary", <<ClassDecl("Struct", "P", NullDecl, FALSE,
                                <<FieldDecl("p", Placeholder(NullType), "Public")>>,
                                NullType, <<>>)>>)

\* what a directory entry is, apart from its name
EntryShapes ==
    {[regular |-> FALSE, extension |-> ".ifc", content |-> GoodFile, writable |-> TRUE],
     [regular |-> TRUE, extension |-> ".txt", content |-> GoodFile, writable |-> TRUE],
     [regular |-> TRUE, extension |-> ".ifc", content |-> GoodFile, writable |-> FALSE]}
    \cup {[regular |-> TRUE, extension |-> ".ifc", content |-> f, writable |-> TRUE] :
            f \in {GoodFile, ThrowingFile, PartlyThrowingFile, UndeducedFile,
                   File("Partition", <<>>)}}

Directories ==
    UNION {{[i \in 1..n |-> [stem |-> EntryStems[i], shape |-> sh[i]]] :
                sh \in [1..n -> EntryShapes]}
           : n \in 0..MaxEntries}

\* convert_ifc_file(<in_dir>/<stem>.ifc, <out_dir>/<stem>.cpp): the values it can
\* return ("abort" when an assert ends the process) and what it wrote
Returned_after_streaming(r, f) ==
    [returns |-> IF r.ok THEN {"true"}
                 ELSE {IF how = "throw" THEN "false" ELSE "abort" : how \in r.fail},
     written |-> <<document(f, r.val)>>]

Returned(r, f) ==
    IF r.ok THEN [returns |-> {"true"}, written |-> <<document(f, r.val)>>]
    ELSE [returns |-> {IF how = "throw" THEN "false" ELSE "abort" : how \in r.fail},
          written |-> <<>>]

convert_ifc_file(entry) ==
    IF entry.shape.extension # ".ifc" THEN [returns |-> {"false"}, written |-> <<>>]
    ELSE IF ~entry.shape.writable THEN [returns |-> {"false"}, written |-> <<>>]
    ELSE Returned(write_cpp_file(entry.shape.content, constructed_code),
                  entry.shape.content)

\* the filter of main's loop
is_ifc_file(entry) == entry.shape.regular /\ entry.shape.extension = ".ifc"

InitBatch ==
    /\ ndebug \in BOOLEAN
    /\ dir \in Directories
    /\ done = <<>>
    /\ exit = "running"
    /\ file = File("Partition", <<>>)
    /\ code = <<>> /\ status = "constructed" /\ calls = 0 /\ outs = <<>>
    /\ NoType

Iterated(outcome, written) ==
    Append(done, [entry |-> Head(dir), outcome |-> outcome, written |-> written])

\* the loop body for an entry that is no regular .ifc file
MainSkipsEntry ==
    /\ exit = "running" /\ dir # <<>>
    /\ ~is_ifc_file(Head(dir))
    /\ done' = Iterated("skipped", <<>>)
    /\ dir' = Tail(dir)
    /\ UNCHANGED <<ndebug, file, code, status, calls, outs, exit, tin, tout>>

\* the loop body for an .ifc file that convert_ifc_file converts
MainConvertsEntry ==
    /\ exit = "running" /\ dir # <<>>
    /\ is_ifc_file(Head(dir))
    /\ \E c \in {convert_ifc_file(Head(dir))} :
        /\ "true" \in c.returns
        /\ done' = Iterated("converted", c.written)
    /\ dir' = Tail(dir)
    /\ UNCHANGED <<ndebug, file, code, status, calls, outs, exit, tin, tout>>

\* the loop body for an .ifc file on which convert_ifc_file returns false
MainFailsEntry ==
    /\ exit = "running" /\ dir # <<>>
    /\ is_ifc_file(Head(dir))
    /\ \E c \in {convert_ifc_file(Head(dir))} :
        /\ "false" \in c.returns
        /\ done' = Iterated("failed", c.written)
    /\ dir' = Tail(dir)
    /\ exit' = "1"
    /\ UNCHANGED <<ndebug, file, code, status, calls, outs, tin, tout>>

\* the loop body for an .ifc file on which an assert ends the process
MainAbortsOnEntry ==
    /\ exit = "running" /\ dir # <<>>
    /\ is_ifc_file(Head(dir))
    /\ \E c \in {convert_ifc_file(Head(dir))} :
        /\ "abort" \in c.returns
        /\ done' = Iterated("aborted", c.written)
    /\ dir' = Tail(dir)
    /\ exit' = "abort"
    /\ UNCHANGED <<ndebug, file, code, status, calls, outs, tin, tout>>

\* the loop is over: return 0
MainReturns ==
    /\ exit = "running" /\ dir = <<>>
    /\ exit' = "0"
    /\ UNCHANGED <<ndebug, file, code, status, calls, outs, dir, done, tin, tout>>

NextBatch ==
    MainSkipsEntry \/ MainConvertsEntry \/ MainFailsEntry \/ MainAbortsOnEntry \/ MainReturns

SpecBatch == InitBatch /\ [][NextBatch]_vars

(***************************************************************************)
(* C10: when main returns from the scan branch, every regular .ifc file of *)
(* the directory that convert_ifc_file can convert has been converted,     *)
(* also those that come after a file whose conversion failed, and the exit *)
(* status is non-zero exactly when the conversion of some file failed.     *)
(***************************************************************************)
Convertible(entry) == is_ifc_file(entry) /\ convert_ifc_file(entry).returns = {"true"}

C10_FailureAbortsOnlyItsOwnArtifact ==
    exit \in {"0", "1"} =>
        /\ \A i \in DOMAIN dir : ~Convertible(dir[i])
        /\ \A i \in DOMAIN done : Convertible(done[i].entry) => done[i].outcome = "converted"
        /\ exit = "1" <=> \E i \in DOMAIN done : done[i].outcome = "failed"

(***************************************************************************)
(* C14: a Placeholder type without a recorded elaboration makes the        *)
(* conversion of its file fail: no document is written for the file, so    *)
(* no text returned for such a type is in an emitted document. (With an    *)
(* elaboration a Placeholder renders as the elaborated type.)              *)
(***************************************************************************)
\* the types of the fields declared by the classes at the top of a file
FieldTypesOf(f) ==
    UNION {{d.members[j].type : j \in {n \in DOMAIN d.members : d.members[n].sort = "Field"}}
           : d \in {f.global_scope[i] : i \in DOMAIN f.global_scope}}

C14_UndeducedPlaceholderNeverEmitted ==
    \A i \in DOMAIN done :
        Placeholder(NullType) \in FieldTypesOf(done[i].entry.shape.content)
        /\ is_ifc_file(done[i].entry) =>
            /\ done[i].outcome # "converted"
            /\ done[i].written = <<>>

(***************************************************************************)
(* The identifier of a type: to_snake_case and the statement render builds *)
(* around it. to_snake_case reads its argument character by character, so  *)
(* here a name is the sequence of its characters.                          *)
(***************************************************************************)
MaxNameLen == 3    \* characters of an identifier

UpperCase == {"A"}
LowerCase == {"a"}
IdentifierChars == UpperCase \cup LowerCase \cup {"_"}

isupper(c) == c \in UpperCase
isalnum(c) == c \in UpperCase \cup LowerCase
tolower(c) == IF c = "A" THEN "a" ELSE c

\* the loop of to_snake_case from character i on
RECURSIVE to_snake_case_from(_, _, _, _)
to_snake_case_from(type_name, i, previous_uppercase, snake_case) ==
    IF i > Len(type_name) THEN snake_case
    ELSE LET c == type_name[i]
         IN  to_snake_case_from(type_name, i + 1, isupper(c),
                 snake_case
                 \o (IF ~previous_uppercase /\ isupper(c) THEN <<"_">> ELSE <<>>)
                 \o (IF isalnum(c) THEN <<tolower(c)>> ELSE <<"_">>))

to_snake_case(type_name) == to_snake_case_from(type_name, 1, TRUE, <<>>)

\* The statement std::format builds in render: the format string holds the
\* arguments {1} to {4}; {0}, var_name, does not occur in it.
add_type(var_name, type_name, bases, fields, methods) ==
    [type_name |-> type_name, bases |-> bases, fields |-> fields, methods |-> methods]

\* render from type_name on, for a type without members and bases
render_statement(type_name) ==
    LET var_name == Append(to_snake_case(type_name), "_")
    IN  [var_name |-> var_name,
         statement |-> add_type(var_name, type_name, <<>>, <<>>, <<>>)]

Identifiers(n) == UNION {[1..k -> IdentifierChars] : k \in 1..n}

\* fully-qualified names: an identifier, alone or in a namespace
TypeNames ==
    Identifiers(MaxNameLen)
    \cup {namespace \o <<":", ":">> \o name :
            namespace \in Identifiers(1), name \in Identifiers(MaxNameLen)}

InitSnake ==
    /\ ndebug \in BOOLEAN
    /\ tin \in TypeNames
    /\ tout = <<>>
    /\ file = File("Partition", <<>>)
    /\ code = <<>> /\ status = "constructed" /\ calls = 0 /\ outs = <<>>
    /\ NoBatch

\* render builds the identifier and the statement of the type named tin
RenderStatement ==
    /\ tout = <<>>
    /\ tout' = <<render_statement(tin)>>
    /\ UNCHANGED <<ndebug, file, code, status, calls, outs, dir, done, exit, tin>>

NextSnake == RenderStatement

SpecSnake == InitSnake /\ [][NextSnake]_vars

(***************************************************************************)
(* C15: the identifier of a type, to_snake_case of its fully-qualified     *)
(* name plus "_", is the identifier of no type with another                *)
(* fully-qualified name, and it is one of the texts the type's             *)
(* registration statement is made of.                                      *)
(***************************************************************************)
C15_IdentifierUniqueAndEmbedded ==
    tout # <<>> =>
        /\ \A other \in TypeNames :
               other # tin => render_statement(other).var_name # tout[1].var_name
        /\ \E argument \in DOMAIN tout[1].statement :
               tout[1].statement[argument] = tout[1].var_name

Unrenderable(m) ==
    \/ m.access \notin AccessValues
    \/ m.sort = "Field" /\ m.type = ForeignType

WithoutOtherMembers(d) ==
    [d EXCEPT !.members = SelectSeq(@, LAMBDA m : m.sort \in {"Field", "Method"})]

C17_FilteredMembersAreRenderedToo ==
    \A k \in DOMAIN Eligible :
        /\ status = "written" =>
               \A m \in EmittableMembers(Eligible[k]) : ~Unrenderable(m)
        /\ render(Eligible[k], <<>>) = render(WithoutOtherMembers(Eligible[k]), <<>>)

C17_witness ==
    /\ status = "thrown" /\ calls = 1
    /\ Len(Eligible) = 1
    /\ Eligible[1].kind = "Class" /\ Eligible[1].friends = <<>>
    /\ \E i, j \in DOMAIN Eligible[1].members :
        /\ Eligible[1].members[i].sort = "Variable"
        /\ Eligible[1].members[j].sort = "Field"
        /\ Eligible[1].members[j].access = "Private"
        /\ Unrenderable(Eligible[1].members[j])

====
